---- MODULE Spec2Model ----
(***************************************************************************)
(* Model of src/dynamic_consortium_keys.py: the Polynomial helper class    *)
(* and the ConsortiumKeyManager (setup, add_member, remove_member,         *)
(* sign_message, verify_signature) over a small safe prime; and of         *)
(* src/shamir_key_backup.py: ShamirSecretSharing.split_secret and          *)
(* reconstruct_secret.                                                     *)
(***************************************************************************)
EXTENDS Integers, Sequences, FiniteSets, TLC

VARIABLES constructed, prime, threshold, master_secret, members,
          active_member_count, rng_used, call, poly_call, backup,
          prime_call, threads

vars == <<constructed, prime, threshold, master_secret, members,
          active_member_count, rng_used, call, poly_call, backup,
          prime_call, threads>>

(* ---------------- bounds of the model ---------------- *)
MaxPrime == 5
MaxThreshold == 3
MaxInitial == 3
MaxId == 3
MaxMembers == 3
MaxDigest == 2
MaxSignerId == 2
MaxSigners == 2
MaxCoeffs == 2
MaxPoints == 3
MaxY == 1
MaxSecret == 5
MaxShares == 4
MaxN == 13
MaxRounds == 3
MaxBits == 4
\* the default number of Miller-Rabin rounds, "k: int = 5"
DefaultRounds == 5

(* ---------------- field arithmetic ---------------- *)
IsPrimeNumber(n) == n > 1 /\ \A d \in 2..(n - 1) : n % d # 0

\* the values generate_safe_prime can return, up to the model's bound:
\* p odd, p prime and (p-1)//2 prime
SafePrimes == {p \in 2..MaxPrime :
                 p % 2 = 1 /\ IsPrimeNumber(p) /\ IsPrimeNumber((p - 1) \div 2)}

RECURSIVE pow(_, _, _)
\* Python's pow(base, exp, mod) for exp >= 0
pow(base, exp, mod) ==
    IF exp = 0 THEN 1 % mod
    ELSE (base * pow(base, exp - 1, mod)) % mod

\* pow(x, -1, mod) raises ValueError when x is not invertible modulo mod
invertible(x, mod) == \E y \in 0..(mod - 1) : (x * y) % mod = 1
pow_inverse(x, mod) == CHOOSE y \in 0..(mod - 1) : (x * y) % mod = 1

(* ---------------- class Polynomial ---------------- *)
RECURSIVE evaluate_loop(_, _, _, _, _, _)
evaluate_loop(coefficients, x, p, k, result, power) ==
    IF k > Len(coefficients) THEN result
    ELSE evaluate_loop(coefficients, x, p, k + 1,
                       (result + coefficients[k] * power) % p,
                       (power * x) % p)

\* a plausible slip: the running power starts at x instead of 1
evaluate_power_from_x(coefficients, x, p) ==
    evaluate_loop(coefficients, x, p, 1, 0, x % p)

evaluate(coefficients, x, p) == evaluate_loop(coefficients, x, p, 1, 0, 1)

RECURSIVE multiply_inner(_, _, _, _, _)
\* coefficient k (0-based) of p1 * p2: the sum over i of p1[i] * p2[k-i]
multiply_inner(p1, p2, p, k, i) ==
    IF i > Len(p1) THEN 0
    ELSE LET j == k - (i - 1) + 1
             term == IF j >= 1 /\ j <= Len(p2) THEN p1[i] * p2[j] ELSE 0
         IN  (multiply_inner(p1, p2, p, k, i + 1) + term) % p

RECURSIVE multiply_loop(_, _, _, _)
multiply_loop(p1, p2, p, k) ==
    IF k = 0 THEN <<>>
    ELSE Append(multiply_loop(p1, p2, p, k - 1),
                multiply_inner(p1, p2, p, k - 1, 1))

multiply_terms(p1, p2, p) == multiply_loop(p1, p2, p, Len(p1) + Len(p2) - 1)

RECURSIVE scalar_multiply_loop(_, _, _, _)
scalar_multiply_loop(poly, scalar, p, k) ==
    IF k = 0 THEN <<>>
    ELSE Append(scalar_multiply_loop(poly, scalar, p, k - 1),
                (poly[k] * scalar) % p)

scalar_multiply(poly, scalar, p) == scalar_multiply_loop(poly, scalar, p, Len(poly))

RECURSIVE add_loop(_, _, _, _)
add_loop(p1, p2, p, k) ==
    IF k = 0 THEN <<>>
    ELSE Append(add_loop(p1, p2, p, k - 1),
                ((IF k <= Len(p1) THEN p1[k] ELSE 0)
                 + (IF k <= Len(p2) THEN p2[k] ELSE 0)) % p)

add_polynomials(p1, p2, p) ==
    add_loop(p1, p2, p, IF Len(p1) >= Len(p2) THEN Len(p1) ELSE Len(p2))

RECURSIVE numerator_unsigned(_, _, _, _)
\* a plausible slip: the factor is (x + x_j) instead of (x - x_j)
numerator_unsigned(points, i, j, p) ==
    IF j = 0 THEN <<1>>
    ELSE IF j = i THEN numerator_unsigned(points, i, j - 1, p)
    ELSE multiply_terms(numerator_unsigned(points, i, j - 1, p),
                        <<points[j][1], 1>>, p)

RECURSIVE numerator(_, _, _, _)
\* product over j # i of (x - x_j), as a coefficient list
numerator(points, i, j, p) ==
    IF j = 0 THEN <<1>>
    ELSE IF j = i THEN numerator(points, i, j - 1, p)
    ELSE multiply_terms(numerator(points, i, j - 1, p),
                        <<0 - points[j][1], 1>>, p)

RECURSIVE denominator(_, _, _, _)
denominator(points, i, j, p) ==
    IF j = 0 THEN 1
    ELSE IF j = i THEN denominator(points, i, j - 1, p)
    ELSE (denominator(points, i, j - 1, p)
          * (points[i][1] - points[j][1])) % p

\* interpolate raises ValueError (from pow(denominator, -1, prime)) when a
\* denominator is not invertible, i.e. two points share x modulo prime
interpolate_raises(points, p) ==
    \E i \in 1..Len(points) :
        ~invertible(denominator(points, i, Len(points), p), p)

\* a plausible slip: each term overwrites the result instead of being added
interpolate_loop_overwrites(points, i, p) ==
    IF i = 0 THEN <<0>>
    ELSE LET inv_denominator ==
                 pow_inverse(denominator(points, i, Len(points), p), p)
         IN  scalar_multiply(numerator(points, i, Len(points), p),
                             (points[i][2] * inv_denominator) % p, p)

RECURSIVE interpolate_loop(_, _, _)
interpolate_loop(points, i, p) ==
    IF i = 0 THEN <<0>>
    ELSE LET inv_denominator ==
                 pow_inverse(denominator(points, i, Len(points), p), p)
             scaled_numerator ==
                 scalar_multiply(numerator(points, i, Len(points), p),
                                 (points[i][2] * inv_denominator) % p, p)
         IN  add_polynomials(interpolate_loop(points, i - 1, p),
                             scaled_numerator, p)

\* coefficient list of Polynomial.interpolate(points, prime)
interpolate(points, p) == interpolate_loop(points, Len(points), p)

(* ---------------- class Member / registry helpers ---------------- *)
\* the registry is a dict; Python dicts keep insertion order, so it is
\* modelled as the sequence of its values in insertion order
Member(id, share, public_key) ==
    [id |-> id, share |-> share, public_key |-> public_key, is_active |-> TRUE]

Ids(ms) == {ms[k].id : k \in 1..Len(ms)}
ActiveIds(ms) == {ms[k].id : k \in {j \in 1..Len(ms) : ms[j].is_active}}
Get(ms, id) == ms[CHOOSE k \in 1..Len(ms) : ms[k].id = id]

(* ---------------- return values ---------------- *)
RetNone == [kind |-> "None", val |-> 0]
RetTrue == [kind |-> "True", val |-> 0]
RetFalse == [kind |-> "False", val |-> 0]
RetValueError == [kind |-> "ValueError", val |-> 0]
RetObject == [kind |-> "object", val |-> 0]
RetMember(id) == [kind |-> "Member", val |-> id]
RetInt(v) == [kind |-> "int", val |-> v]

NoCall == [op |-> "none", t |-> 0, n |-> 0, id |-> 0, signers |-> <<>>,
           msg |-> 0, sig |-> RetNone, ret |-> RetNone]

(* ---------------- ConsortiumKeyManager ---------------- *)
RECURSIVE setup_loop(_, _, _)
\* members after the loop "for i in range(1, n + 1)"
setup_loop(poly, i, p) ==
    IF i = 0 THEN <<>>
    ELSE LET share == evaluate(poly, i, p)
         IN  Append(setup_loop(poly, i - 1, p),
                    Member(i, share, pow(share, 2, p)))

\* a plausible slip: the secret is appended after the random coefficients
setup_initial_shares_secret_last(n, secret, coeffs, p) ==
    setup_loop(coeffs \o <<secret>>, n, p)

setup_initial_shares(n, secret, coeffs, p) ==
    setup_loop(<<secret>> \o coeffs, n, p)

\* a plausible slip: only the active members are looked at
is_registered_active_only(ms, id) == id \in ActiveIds(ms)

\* "new_member_id in self.members"
is_registered(ms, id) == id \in Ids(ms)

\* a plausible slip: the is_active test is left out
cannot_leave_unknown_only(ms, id) == id \notin Ids(ms)

\* "member_id not in self.members or not self.members[member_id].is_active"
cannot_leave(ms, id) == id \notin Ids(ms) \/ ~Get(ms, id).is_active

RECURSIVE collect_loop_ignores_exclude(_, _, _, _, _)
\* a plausible slip: the exclude set is not looked at
collect_loop_ignores_exclude(ms, t, exclude, k, shares) ==
    IF k > Len(ms) THEN shares
    ELSE IF ms[k].is_active
         THEN LET shares2 == Append(shares, <<ms[k].id, ms[k].share>>)
              IN  IF Len(shares2) >= t THEN shares2
                  ELSE collect_loop_ignores_exclude(ms, t, exclude, k + 1,
                                                    shares2)
         ELSE collect_loop_ignores_exclude(ms, t, exclude, k + 1, shares)

RECURSIVE collect_loop(_, _, _, _, _)
collect_loop(ms, t, exclude, k, shares) ==
    IF k > Len(ms) THEN shares
    ELSE IF ms[k].is_active /\ ms[k].id \notin exclude
         THEN LET shares2 == Append(shares, <<ms[k].id, ms[k].share>>)
              IN  IF Len(shares2) >= t THEN shares2
                  ELSE collect_loop(ms, t, exclude, k + 1, shares2)
         ELSE collect_loop(ms, t, exclude, k + 1, shares)

\* the list collected by collect_threshold_shares; the method returns None
\* when it is shorter than the threshold
collect_threshold_shares(ms, t, exclude) == collect_loop(ms, t, exclude, 1, <<>>)

\* a plausible slip: only an empty list counts as a failed collection
collect_fails_empty_only(ms, t, exclude) ==
    Len(collect_threshold_shares(ms, t, exclude)) = 0

collect_fails(ms, t, exclude) ==
    LET shares == collect_threshold_shares(ms, t, exclude)
    IN  Len(shares) < t \/ Len(shares) = 0

\* a plausible slip: the new polynomial keeps the leading coefficient of the
\* old one instead of its constant term
reshare_polynomial_keeps_last(poly, fresh) == <<poly[Len(poly)]>> \o fresh

\* new_coefficients of remove_member: the old constant term, then the freshly
\* drawn coefficients
reshare_polynomial(poly, fresh) == <<poly[1]>> \o fresh

\* a plausible slip: the new share is stored without its public key
redistribute_keeps_public_key(ms, member_id, new_poly, p) ==
    [k \in 1..Len(ms) |->
        IF ms[k].id # member_id /\ ms[k].is_active
        THEN [ms[k] EXCEPT !.share = evaluate(new_poly, ms[k].id, p)]
        ELSE ms[k]]

\* the loop "for member in self.members.values()" of remove_member
redistribute(ms, member_id, new_poly, p) ==
    [k \in 1..Len(ms) |->
        IF ms[k].id # member_id /\ ms[k].is_active
        THEN LET share == evaluate(new_poly, ms[k].id, p)
             IN  [ms[k] EXCEPT !.share = share,
                               !.public_key = pow(share, 2, p)]
        ELSE ms[k]]

\* a plausible slip: the is_active flag of the departing member is not
\* cleared
deactivate_keeps_flag(ms, member_id) == ms

\* a plausible slip: the departing member's record is deleted
deactivate_deletes(ms, member_id) ==
    SelectSeq(ms, LAMBDA m : m.id # member_id)

\* "self.members[member_id].is_active = False"
deactivate(ms, member_id) ==
    [k \in 1..Len(ms) |->
        IF ms[k].id = member_id THEN [ms[k] EXCEPT !.is_active = FALSE]
        ELSE ms[k]]

RECURSIVE signer_shares_any_registered(_, _, _, _)
\* a plausible slip: the is_active test is left out
signer_shares_any_registered(ms, signers, t, k) ==
    IF k = 0 THEN <<>>
    ELSE LET rest == signer_shares_any_registered(ms, signers, t, k - 1)
             signer_id == signers[k]
         IN  IF signer_id \in Ids(ms)
             THEN Append(rest, <<signer_id, Get(ms, signer_id).share>>)
             ELSE rest

RECURSIVE signer_shares(_, _, _, _)
\* shares of the signers among signers[:threshold] that are registered and active
signer_shares(ms, signers, t, k) ==
    IF k = 0 THEN <<>>
    ELSE LET rest == signer_shares(ms, signers, t, k - 1)
             signer_id == signers[k]
         IN  IF signer_id \in Ids(ms) /\ Get(ms, signer_id).is_active
             THEN Append(rest, <<signer_id, Get(ms, signer_id).share>>)
             ELSE rest

Min(a, b) == IF a <= b THEN a ELSE b

\* a plausible slip: the two quorum tests compare with 1, not the threshold
sign_message_result_any_share(ms, t, p, msg_hash, signers) ==
    IF Len(signers) < 1 THEN RetNone
    ELSE LET shares == signer_shares(ms, signers, t, Min(t, Len(signers)))
         IN  IF Len(shares) < 1 THEN RetNone
             ELSE IF interpolate_raises(shares, p) THEN RetValueError
             ELSE LET secret == interpolate(shares, p)[1]
                  IN  RetInt(pow(msg_hash, secret, p))

\* a plausible slip: the exponent is the leading coefficient, not the constant
sign_message_result_last_coeff(ms, t, p, msg_hash, signers) ==
    IF Len(signers) < t THEN RetNone
    ELSE LET shares == signer_shares(ms, signers, t, Min(t, Len(signers)))
         IN  IF Len(shares) < t THEN RetNone
             ELSE IF interpolate_raises(shares, p) THEN RetValueError
             ELSE LET poly == interpolate(shares, p)
                  IN  RetInt(pow(msg_hash, poly[Len(poly)], p))

\* a plausible slip: the signer list is not cut to its first t entries
sign_message_result_no_slice(ms, t, p, msg_hash, signers) ==
    IF Len(signers) < t THEN RetNone
    ELSE LET shares == signer_shares(ms, signers, t, Len(signers))
         IN  IF Len(shares) < t THEN RetNone
             ELSE IF interpolate_raises(shares, p) THEN RetValueError
             ELSE LET secret == interpolate(shares, p)[1]
                  IN  RetInt(pow(msg_hash, secret, p))

\* the value sign_message returns (or the exception it raises); msg_hash is
\* the SHA-256 digest of the message read as an integer
sign_message_result(ms, t, p, msg_hash, signers) ==
    IF Len(signers) < t THEN RetNone
    ELSE LET shares == signer_shares(ms, signers, t, Min(t, Len(signers)))
         IN  IF Len(shares) < t THEN RetNone
             ELSE IF interpolate_raises(shares, p) THEN RetValueError
             ELSE LET secret == interpolate(shares, p)[1]
                  IN  RetInt(pow(msg_hash, secret, p))

\* verify_signature: signature == pow(msg_hash, master_secret, prime)
verify_signature_result(secret, p, msg_hash, signature) ==
    signature = RetInt(pow(msg_hash, secret, p))

(* ---------------- inputs ---------------- *)
MemberIds == 0..MaxId
Digests == 0..MaxDigest
SignerLists ==
    UNION {[1..len -> 1..MaxSignerId] : len \in 0..MaxSigners}
Signatures(p) == {RetNone} \cup {RetInt(v) : v \in 0..(p - 1)}

(* ---------------- state machine ---------------- *)
\* A call that fails, signs or verifies leaves the manager as it was and only
\* replaces the record of the last call, so whatever can be called after it can
\* also be called in the state it was made in.  The model therefore makes every
\* call in a state that a changing call (or nothing yet) has produced: the
\* managers reached, and the calls made on each of them, are the same.
Fresh ==
    \/ call.op = "none"
    \/ call.ret.kind \in {"object", "Member"}
    \/ call.op = "remove_member" /\ call.ret.kind = "True"

\* no Polynomial call made yet
NoPolyCall == [op |-> "none", p |-> 0, coefficients |-> <<>>, xs |-> <<>>,
               points |-> <<>>, raised |-> FALSE, result |-> <<>>]

\* no ShamirSecretSharing object built yet
NoBackup == [op |-> "none", prime |-> 0, secret |-> 0, threshold |-> 0,
             total_shares |-> 0, shares |-> <<>>, given |-> <<>>,
             ret |-> RetNone]

\* no is_prime or generate_safe_prime call made yet
NoPrimeCall == [op |-> "none", n |-> 0, k |-> 0, witnesses |-> <<>>,
                bits |-> 0, sampled |-> FALSE, candidate |-> 0,
                passed |-> <<>>, ret |-> RetNone]

\* no call in progress: the position and the local variables of a
\* remove_member call and of a sign_message call running on one manager
NoThreads == [remove |-> [pc |-> "idle", id |-> 0, new_poly |-> <<>>, k |-> 0],
              sign |-> [pc |-> "idle", msg |-> 0, signers |-> <<>>, k |-> 0,
                        shares |-> <<>>, overlapped |-> FALSE,
                        ret |-> RetNone]]

Init ==
    /\ constructed = FALSE
    /\ prime = 0
    /\ threshold = 0
    /\ master_secret = 0
    /\ members = <<>>
    /\ active_member_count = 0
    /\ rng_used = FALSE
    /\ call = NoCall
    /\ poly_call = NoPolyCall
    /\ backup = NoBackup
    /\ prime_call = NoPrimeCall
    /\ threads = NoThreads

\* a plausible slip: the threshold is validated after the prime is drawn
Construct_validates_late(t, n) ==
    /\ ~constructed
    /\ Fresh
    /\ UNCHANGED <<poly_call, backup, prime_call, threads>>
    /\ IF t > n
       THEN /\ \E p \in SafePrimes : prime' = p
            /\ rng_used' = TRUE
            /\ call' = [NoCall EXCEPT !.op = "__init__", !.t = t, !.n = n,
                                      !.ret = RetValueError]
            /\ UNCHANGED <<constructed, threshold, master_secret,
                           members, active_member_count>>
       ELSE \E p \in SafePrimes :
            \E secret \in 2..(p - 1) :
            \E coeffs \in [1..(t - 1) -> 2..(p - 1)] :
               /\ constructed' = TRUE
               /\ threshold' = t
               /\ prime' = p
               /\ rng_used' = TRUE
               /\ master_secret' = secret
               /\ members' = setup_initial_shares(n, secret, coeffs, p)
               /\ active_member_count' = n
               /\ call' = [NoCall EXCEPT !.op = "__init__", !.t = t, !.n = n,
                                         !.ret = RetObject]

\* ConsortiumKeyManager.__init__(threshold, initial_members)
Construct(t, n) ==
    /\ ~constructed
    /\ Fresh
    /\ UNCHANGED <<poly_call, backup, prime_call, threads>>
    /\ IF t > n
       THEN /\ call' = [NoCall EXCEPT !.op = "__init__", !.t = t, !.n = n,
                                      !.ret = RetValueError]
            /\ UNCHANGED <<constructed, prime, threshold, master_secret,
                           members, active_member_count, rng_used>>
       ELSE \E p \in SafePrimes :
            \E secret \in 2..(p - 1) :
            \E coeffs \in [1..(t - 1) -> 2..(p - 1)] :
               /\ constructed' = TRUE
               /\ threshold' = t
               /\ prime' = p
               /\ rng_used' = TRUE
               /\ master_secret' = secret
               /\ members' = setup_initial_shares(n, secret, coeffs, p)
               /\ active_member_count' = n
               /\ call' = [NoCall EXCEPT !.op = "__init__", !.t = t, !.n = n,
                                         !.ret = RetObject]

\* a plausible slip: the counter is set from the size of the registry
add_member_recounts(new_member_id) ==
    /\ constructed
    /\ Fresh
    /\ UNCHANGED <<poly_call, backup, prime_call, threads>>
    /\ IF is_registered(members, new_member_id)
       THEN /\ call' = [NoCall EXCEPT !.op = "add_member",
                                      !.id = new_member_id, !.ret = RetNone]
            /\ UNCHANGED <<members, active_member_count>>
       ELSE IF collect_fails(members, threshold, {})
       THEN /\ call' = [NoCall EXCEPT !.op = "add_member",
                                      !.id = new_member_id, !.ret = RetNone]
            /\ UNCHANGED <<members, active_member_count>>
       ELSE LET shares == collect_threshold_shares(members, threshold, {})
            IN  IF interpolate_raises(shares, prime)
                THEN /\ call' = [NoCall EXCEPT !.op = "add_member",
                                               !.id = new_member_id,
                                               !.ret = RetValueError]
                     /\ UNCHANGED <<members, active_member_count>>
                ELSE LET poly == interpolate(shares, prime)
                         share == evaluate(poly, new_member_id, prime)
                         public_key == pow(share, 2, prime)
                     IN  /\ Len(members) < MaxMembers
                         /\ members' = Append(members,
                                Member(new_member_id, share, public_key))
                         /\ active_member_count' = Len(members) + 1
                         /\ call' = [NoCall EXCEPT !.op = "add_member",
                                        !.id = new_member_id,
                                        !.ret = RetMember(new_member_id)]
    /\ UNCHANGED <<constructed, prime, threshold, master_secret, rng_used>>

\* ConsortiumKeyManager.add_member(new_member_id)
add_member(new_member_id) ==
    /\ constructed
    /\ Fresh
    /\ UNCHANGED <<poly_call, backup, prime_call, threads>>
    /\ IF is_registered(members, new_member_id)
       THEN /\ call' = [NoCall EXCEPT !.op = "add_member",
                                      !.id = new_member_id, !.ret = RetNone]
            /\ UNCHANGED <<members, active_member_count>>
       ELSE IF collect_fails(members, threshold, {})
       THEN /\ call' = [NoCall EXCEPT !.op = "add_member",
                                      !.id = new_member_id, !.ret = RetNone]
            /\ UNCHANGED <<members, active_member_count>>
       ELSE LET shares == collect_threshold_shares(members, threshold, {})
            IN  IF interpolate_raises(shares, prime)
                THEN /\ call' = [NoCall EXCEPT !.op = "add_member",
                                               !.id = new_member_id,
                                               !.ret = RetValueError]
                     /\ UNCHANGED <<members, active_member_count>>
                ELSE LET poly == interpolate(shares, prime)
                         share == evaluate(poly, new_member_id, prime)
                         public_key == pow(share, 2, prime)
                     IN  /\ Len(members) < MaxMembers
                         /\ members' = Append(members,
                                Member(new_member_id, share, public_key))
                         /\ active_member_count' = active_member_count + 1
                         /\ call' = [NoCall EXCEPT !.op = "add_member",
                                        !.id = new_member_id,
                                        !.ret = RetMember(new_member_id)]
    /\ UNCHANGED <<constructed, prime, threshold, master_secret, rng_used>>

remove_member(member_id, fresh) ==
    /\ constructed
    /\ Fresh
    /\ UNCHANGED <<poly_call, backup, prime_call, threads>>
    /\ IF cannot_leave(members, member_id)
       THEN /\ call' = [NoCall EXCEPT !.op = "remove_member",
                                      !.id = member_id, !.ret = RetFalse]
            /\ UNCHANGED <<members, active_member_count>>
       ELSE IF collect_fails(members, threshold, {member_id})
       THEN /\ call' = [NoCall EXCEPT !.op = "remove_member",
                                      !.id = member_id, !.ret = RetFalse]
            /\ UNCHANGED <<members, active_member_count>>
       ELSE LET shares == collect_threshold_shares(members, threshold,
                                                   {member_id})
            IN  IF interpolate_raises(shares, prime)
                THEN /\ call' = [NoCall EXCEPT !.op = "remove_member",
                                               !.id = member_id,
                                               !.ret = RetValueError]
                     /\ UNCHANGED <<members, active_member_count>>
                ELSE LET poly == interpolate(shares, prime)
                         new_coefficients == reshare_polynomial(poly, fresh)
                     IN  /\ members' = deactivate(
                                redistribute(members, member_id,
                                             new_coefficients, prime),
                                member_id)
                         /\ active_member_count' = active_member_count - 1
                         /\ call' = [NoCall EXCEPT !.op = "remove_member",
                                        !.id = member_id, !.ret = RetTrue]
    /\ UNCHANGED <<constructed, prime, threshold, master_secret, rng_used>>

sign_message(msg_hash, signers) ==
    /\ constructed
    /\ Fresh
    /\ UNCHANGED <<poly_call, backup, prime_call, threads>>
    /\ call' = [NoCall EXCEPT !.op = "sign_message", !.msg = msg_hash,
                   !.signers = signers,
                   !.ret = sign_message_result(members, threshold, prime,
                                               msg_hash, signers)]
    /\ UNCHANGED <<constructed, prime, threshold, master_secret, members,
                   active_member_count, rng_used>>

verify_signature(msg_hash, signature) ==
    /\ constructed
    /\ Fresh
    /\ UNCHANGED <<poly_call, backup, prime_call, threads>>
    /\ call' = [NoCall EXCEPT !.op = "verify_signature", !.msg = msg_hash,
                   !.sig = signature,
                   !.ret = IF verify_signature_result(master_secret, prime,
                                                      msg_hash, signature)
                           THEN RetTrue ELSE RetFalse]
    /\ UNCHANGED <<constructed, prime, threshold, master_secret, members,
                   active_member_count, rng_used>>

Next ==
    \/ \E t \in 1..MaxThreshold : \E n \in 1..MaxInitial : Construct(t, n)
    \/ \E id \in MemberIds : add_member(id)
    \/ \E id \in MemberIds :
       \E fresh \in [1..(threshold - 1) -> 2..(prime - 1)] :
          remove_member(id, fresh)
    \/ \E m \in Digests : \E signers \in SignerLists : sign_message(m, signers)
    \/ \E m \in Digests : \E s \in Signatures(prime) : verify_signature(m, s)

Spec == Init /\ [][Next]_vars

\* the membership operations alone: setup, add_member, remove_member
NextMembership ==
    \/ \E t \in 1..MaxThreshold : \E n \in 1..MaxInitial : Construct(t, n)
    \/ \E id \in MemberIds : add_member(id)
    \/ \E id \in MemberIds :
       \E fresh \in [1..(threshold - 1) -> 2..(prime - 1)] :
          remove_member(id, fresh)

SpecMembership == Init /\ [][NextMembership]_vars

(* ---------------- class Polynomial called directly ---------------- *)
\* a caller's list [(x, Polynomial(coefficients, p).evaluate(x)) for x in xs]
RECURSIVE evaluate_points(_, _, _, _)
evaluate_points(coefficients, xs, p, k) ==
    IF k = 0 THEN <<>>
    ELSE Append(evaluate_points(coefficients, xs, p, k - 1),
                <<xs[k], evaluate(coefficients, xs[k], p)>>)

\* nonempty coefficient lists with entries in [0, p)
CoefficientLists(p) == UNION {[1..k -> 0..(p - 1)] : k \in 1..MaxCoeffs}
\* the x-coordinates used: every residue modulo p, and p itself, which is
\* congruent to 0
XValues(p) == 0..p
\* lists of at most k evaluation points x
XLists(k, p) == UNION {[1..j -> XValues(p)] : j \in 0..k}
\* lists of (x, y) points given to interpolate directly
PointLists(p) ==
    UNION {[1..k -> XValues(p) \X (0..MaxY)] : k \in 0..MaxPoints}

\* the inputs of a direct use of the class: either a Polynomial and the
\* points x to evaluate it at, or a list of points to interpolate
InitPolynomial ==
    /\ constructed = FALSE
    /\ prime = 0
    /\ threshold = 0
    /\ master_secret = 0
    /\ members = <<>>
    /\ active_member_count = 0
    /\ rng_used = FALSE
    /\ call = NoCall
    /\ backup = NoBackup
    /\ prime_call = NoPrimeCall
    /\ threads = NoThreads
    /\ \E p \in SafePrimes :
          \/ \E c \in CoefficientLists(p) : \E xs \in XLists(Len(c), p) :
                poly_call = [NoPolyCall EXCEPT !.op = "Polynomial", !.p = p,
                                !.coefficients = c, !.xs = xs]
          \/ \E pts \in PointLists(p) :
                poly_call = [NoPolyCall EXCEPT !.op = "points", !.p = p,
                                               !.points = pts]

\* Polynomial(coefficients, p).evaluate(x) for each x of the list
Polynomial_evaluate ==
    /\ poly_call.op = "Polynomial"
    /\ poly_call' = [poly_call EXCEPT !.op = "evaluate",
                        !.points = evaluate_points(poly_call.coefficients,
                                       poly_call.xs, poly_call.p,
                                       Len(poly_call.xs))]
    /\ UNCHANGED <<constructed, prime, threshold, master_secret, members,
                   active_member_count, rng_used, call, backup,
                   prime_call, threads>>

\* a plausible slip: the error of the modular inverse is swallowed and the
\* zero polynomial the loop started from is returned
Polynomial_interpolate_swallows ==
    /\ poly_call.op \in {"evaluate", "points"}
    /\ poly_call' = [poly_call EXCEPT !.op = "interpolate", !.raised = FALSE,
                        !.result = IF interpolate_raises(poly_call.points,
                                                         poly_call.p)
                                   THEN <<0>>
                                   ELSE interpolate(poly_call.points,
                                                    poly_call.p)]
    /\ UNCHANGED <<constructed, prime, threshold, master_secret, members,
                   active_member_count, rng_used, call, backup,
                   prime_call, threads>>

\* Polynomial.interpolate(points, p): raises ValueError, or returns a
\* Polynomial whose coefficient list is recorded
Polynomial_interpolate ==
    /\ poly_call.op \in {"evaluate", "points"}
    /\ poly_call' = [poly_call EXCEPT !.op = "interpolate",
                        !.raised = interpolate_raises(poly_call.points,
                                                      poly_call.p),
                        !.result = IF interpolate_raises(poly_call.points,
                                                         poly_call.p)
                                   THEN <<>>
                                   ELSE interpolate(poly_call.points,
                                                    poly_call.p)]
    /\ UNCHANGED <<constructed, prime, threshold, master_secret, members,
                   active_member_count, rng_used, call, backup,
                   prime_call, threads>>

NextPolynomial ==
    \/ Polynomial_evaluate
    \/ Polynomial_interpolate

SpecPolynomial == InitPolynomial /\ [][NextPolynomial]_vars

(* ---------------- class ShamirSecretSharing ---------------- *)
Share(index, value) == [index |-> index, value |-> value]

\* ShamirSecretSharing._evaluate_polynomial
evaluate_polynomial(coefficients, x, p) ==
    evaluate_loop(coefficients, x, p, 1, 0, 1)

RECURSIVE split_loop(_, _, _)
\* shares after the loop "for i in range(1, total_shares + 1)"
split_loop(coefficients, i, p) ==
    IF i = 0 THEN <<>>
    ELSE Append(split_loop(coefficients, i - 1, p),
                Share(i, evaluate_polynomial(coefficients, i, p)))

RECURSIVE reconstruct_numerator_unsigned(_, _, _, _)
\* a plausible slip: x_j is multiplied in instead of -x_j
reconstruct_numerator_unsigned(shares, i, j, p) ==
    IF j = 0 THEN 1
    ELSE IF j = i THEN reconstruct_numerator_unsigned(shares, i, j - 1, p)
    ELSE (reconstruct_numerator_unsigned(shares, i, j - 1, p)
          * shares[j].index) % p

RECURSIVE reconstruct_numerator(_, _, _, _)
\* product over j # i of (-x_j)
reconstruct_numerator(shares, i, j, p) ==
    IF j = 0 THEN 1
    ELSE IF j = i THEN reconstruct_numerator(shares, i, j - 1, p)
    ELSE (reconstruct_numerator(shares, i, j - 1, p)
          * (0 - shares[j].index)) % p

RECURSIVE reconstruct_denominator(_, _, _, _)
\* product over j # i of (x_i - x_j)
reconstruct_denominator(shares, i, j, p) ==
    IF j = 0 THEN 1
    ELSE IF j = i THEN reconstruct_denominator(shares, i, j - 1, p)
    ELSE (reconstruct_denominator(shares, i, j - 1, p)
          * (shares[i].index - shares[j].index)) % p

\* reconstruct_secret raises ValueError on an empty list and (from
\* pow(denominator, -1, prime)) when a denominator is not invertible
reconstruct_raises(shares, p) ==
    \/ shares = <<>>
    \/ \E i \in 1..Len(shares) :
          ~invertible(reconstruct_denominator(shares, i, Len(shares), p), p)

RECURSIVE reconstruct_loop(_, _, _)
reconstruct_loop(shares, i, p) ==
    IF i = 0 THEN 0
    ELSE LET inv_denominator ==
                 pow_inverse(
                     reconstruct_denominator(shares, i, Len(shares), p), p)
             term == (shares[i].value
                      * reconstruct_numerator(shares, i, Len(shares), p)
                      * inv_denominator) % p
         IN  (reconstruct_loop(shares, i - 1, p) + term) % p

RECURSIVE pick(_, _, _)
\* the shares at the chosen positions, in the chosen order
pick(shares, positions, k) ==
    IF k = 0 THEN <<>>
    ELSE Append(pick(shares, positions, k - 1), shares[positions[k]])

\* lists of pairwise distinct positions of a list of n shares
Selections(n) ==
    UNION {{f \in [1..k -> 1..n] : \A i, j \in 1..k : i # j => f[i] # f[j]} :
           k \in 0..n}

\* ShamirSecretSharing(): the object holds the safe prime it generated
InitBackup ==
    /\ constructed = FALSE
    /\ prime = 0
    /\ threshold = 0
    /\ master_secret = 0
    /\ members = <<>>
    /\ active_member_count = 0
    /\ rng_used = FALSE
    /\ call = NoCall
    /\ poly_call = NoPolyCall
    /\ prime_call = NoPrimeCall
    /\ threads = NoThreads
    /\ \E p \in SafePrimes :
          backup = [NoBackup EXCEPT !.op = "__init__", !.prime = p]

\* ShamirSecretSharing.split_secret(secret, threshold, total_shares)
split_secret(secret, t, n) ==
    /\ backup.op = "__init__"
    /\ IF t > n \/ secret >= backup.prime
       THEN backup' = [backup EXCEPT !.op = "split_secret", !.secret = secret,
                          !.threshold = t, !.total_shares = n,
                          !.ret = RetValueError]
       ELSE \E coeffs \in [1..(t - 1) -> 1..(backup.prime - 1)] :
               backup' = [backup EXCEPT !.op = "split_secret",
                             !.secret = secret, !.threshold = t,
                             !.total_shares = n,
                             !.shares = split_loop(<<secret>> \o coeffs, n,
                                                   backup.prime),
                             !.ret = RetObject]
    /\ UNCHANGED <<constructed, prime, threshold, master_secret, members,
                   active_member_count, rng_used, call, poly_call,
                   prime_call, threads>>

\* ShamirSecretSharing.reconstruct_secret(shares) on some of the shares
\* split_secret returned
reconstruct_secret(positions) ==
    /\ backup.op = "split_secret"
    /\ backup.ret = RetObject
    /\ LET given == pick(backup.shares, positions, Len(positions))
       IN  backup' = [backup EXCEPT !.op = "reconstruct_secret",
                         !.given = given,
                         !.ret = IF reconstruct_raises(given, backup.prime)
                                 THEN RetValueError
                                 ELSE RetInt(reconstruct_loop(given,
                                                 Len(given), backup.prime))]
    /\ UNCHANGED <<constructed, prime, threshold, master_secret, members,
                   active_member_count, rng_used, call, poly_call,
                   prime_call, threads>>

NextBackup ==
    \/ \E secret \in 0..MaxSecret : \E t \in 1..MaxThreshold :
       \E n \in 1..MaxShares : split_secret(secret, t, n)
    \/ /\ backup.op = "split_secret"
       /\ \E positions \in Selections(Len(backup.shares)) :
             reconstruct_secret(positions)

SpecBackup == InitBackup /\ [][NextBackup]_vars

(* ---------------- is_prime and generate_safe_prime ---------------- *)
RECURSIVE odd_part(_)
\* s after the loop "while s % 2 == 0: r += 1; s //= 2"
odd_part(s) == IF s % 2 = 0 THEN odd_part(s \div 2) ELSE s

RECURSIVE two_exponent(_)
\* r after the same loop
two_exponent(s) == IF s % 2 = 0 THEN 1 + two_exponent(s \div 2) ELSE 0

RECURSIVE squaring_finds(_, _, _)
\* the inner loop "for _ in range(r - 1)": TRUE when it breaks on x == n - 1,
\* FALSE when it runs to its else branch
squaring_finds(x, n, j) ==
    IF j <= 0 THEN FALSE
    ELSE LET y == (x * x) % n
         IN  y = n - 1 \/ squaring_finds(y, n, j - 1)

\* a plausible slip: the repeated squaring is left out
round_passes_no_squaring(n, a) ==
    LET x == pow(a, odd_part(n - 1), n)
    IN  x = 1 \/ x = n - 1

\* one round of the loop of is_prime with the random base a: TRUE when the
\* round continues, FALSE when it returns False
round_passes(n, a) ==
    LET s == odd_part(n - 1)
        r == two_exponent(n - 1)
        x == pow(a, s, n)
    IN  x = 1 \/ x = n - 1 \/ squaring_finds(x, n, r - 1)

RECURSIVE is_prime_loop(_, _, _)
is_prime_loop(n, witnesses, i) ==
    IF i > Len(witnesses) THEN TRUE
    ELSE IF round_passes(n, witnesses[i])
         THEN is_prime_loop(n, witnesses, i + 1)
         ELSE FALSE

\* is_prime(n, k) when the k draws of random.randrange(2, n - 1) are the
\* entries of `witnesses`
is_prime(n, witnesses) ==
    IF n <= 3 THEN n > 1
    ELSE IF n % 2 = 0 THEN FALSE
    ELSE is_prime_loop(n, witnesses, 1)

\* the lists of k values random.randrange(2, n - 1) can draw; no value is
\* drawn when is_prime returns before its loop
WitnessLists(n, k) ==
    IF n <= 3 \/ n % 2 = 0 THEN {<<>>} ELSE [1..k -> 2..(n - 2)]

RECURSIVE loop_outcomes(_, _)
\* the values the loop of is_prime can return over all draws of k bases
loop_outcomes(n, k) ==
    IF k = 0 THEN {TRUE}
    ELSE LET rounds == {round_passes(n, a) : a \in 2..(n - 2)}
         IN  (IF FALSE \in rounds THEN {FALSE} ELSE {})
             \cup (IF TRUE \in rounds THEN loop_outcomes(n, k - 1) ELSE {})

\* the values is_prime(n, k) can return over all random draws
is_prime_outcomes(n, k) ==
    IF n <= 3 THEN {n > 1}
    ELSE IF n % 2 = 0 THEN {FALSE}
    ELSE loop_outcomes(n, k)

RECURSIVE two_to(_)
two_to(e) == IF e = 0 THEN 1 ELSE 2 * two_to(e - 1)

\* r | 1
or_one(r) == IF r % 2 = 0 THEN r + 1 ELSE r

\* the arguments of a call of is_prime(n, k), or of generate_safe_prime(bits)
InitPrime ==
    /\ constructed = FALSE
    /\ prime = 0
    /\ threshold = 0
    /\ master_secret = 0
    /\ members = <<>>
    /\ active_member_count = 0
    /\ rng_used = FALSE
    /\ call = NoCall
    /\ poly_call = NoPolyCall
    /\ backup = NoBackup
    /\ threads = NoThreads
    /\ \/ \E n \in (0 - MaxN)..MaxN : \E k \in 0..MaxRounds :
             prime_call = [NoPrimeCall EXCEPT !.op = "is_prime_args",
                                              !.n = n, !.k = k]
       \/ \E bits \in 1..MaxBits :
             prime_call = [NoPrimeCall EXCEPT !.op = "generate_safe_prime",
                                              !.bits = bits]

\* is_prime(n, k), with the bases it draws
is_prime_call ==
    /\ prime_call.op = "is_prime_args"
    /\ \E ws \in WitnessLists(prime_call.n, prime_call.k) :
          prime_call' = [prime_call EXCEPT !.op = "is_prime",
                            !.witnesses = ws,
                            !.ret = IF is_prime(prime_call.n, ws)
                                    THEN RetTrue ELSE RetFalse]
    /\ UNCHANGED <<constructed, prime, threshold, master_secret, members,
                   active_member_count, rng_used, call, poly_call, backup,
                   threads>>

\* one pass of the loop "while True" of generate_safe_prime(bits): a
\* candidate is sampled and is returned if both tests pass
generate_safe_prime_pass ==
    /\ prime_call.op = "generate_safe_prime"
    /\ prime_call.ret = RetNone
    /\ \E r \in 0..(two_to(prime_call.bits) - 1) :
       LET p == or_one(r)
       IN  \E first \in is_prime_outcomes(p, DefaultRounds) :
           \E second \in IF first
                         THEN is_prime_outcomes((p - 1) \div 2, DefaultRounds)
                         ELSE {FALSE} :
              prime_call' = [prime_call EXCEPT !.sampled = TRUE,
                                !.candidate = p,
                                !.passed = IF first THEN <<first, second>>
                                           ELSE <<first>>,
                                !.ret = IF first /\ second THEN RetInt(p)
                                        ELSE RetNone]
    /\ UNCHANGED <<constructed, prime, threshold, master_secret, members,
                   active_member_count, rng_used, call, poly_call, backup,
                   threads>>

NextPrime ==
    \/ is_prime_call
    \/ generate_safe_prime_pass

SpecPrime == InitPrime /\ [][NextPrime]_vars

(* ------- remove_member and sign_message running unserialized ------- *)
\* remove_member up to its loop: the tests, the collection of shares and the
\* new polynomial (lines 159-173); the call returns False here when it fails
remove_begin(member_id, fresh) ==
    /\ constructed
    /\ threads.remove.pc = "idle"
    /\ IF \/ cannot_leave(members, member_id)
          \/ collect_fails(members, threshold, {member_id})
          \/ interpolate_raises(
                 collect_threshold_shares(members, threshold, {member_id}),
                 prime)
       THEN threads' = [threads EXCEPT !.remove.pc = "failed",
                                       !.remove.id = member_id]
       ELSE LET poly == interpolate(
                    collect_threshold_shares(members, threshold, {member_id}),
                    prime)
            IN  threads' = [threads EXCEPT !.remove.pc = "loop",
                               !.remove.id = member_id,
                               !.remove.new_poly =
                                   reshare_polynomial(poly, fresh),
                               !.remove.k = 1,
                               !.sign.overlapped =
                                   @ \/ threads.sign.pc = "loop"]
    /\ UNCHANGED <<constructed, prime, threshold, master_secret, members,
                   active_member_count, rng_used, call, poly_call, backup,
                   prime_call>>

\* one pass of the loop "for member in self.members.values()" (lines
\* 176-179): the k-th record gets its new share and public key
remove_step ==
    /\ threads.remove.pc = "loop"
    /\ threads.remove.k <= Len(members)
    /\ LET k == threads.remove.k
           share == evaluate(threads.remove.new_poly, members[k].id, prime)
       IN  members' =
             IF members[k].id # threads.remove.id /\ members[k].is_active
             THEN [members EXCEPT ![k].share = share,
                                  ![k].public_key = pow(share, 2, prime)]
             ELSE members
    /\ threads' = [threads EXCEPT !.remove.k = @ + 1,
                      !.sign.overlapped = @ \/ threads.sign.pc = "loop"]
    /\ UNCHANGED <<constructed, prime, threshold, master_secret,
                   active_member_count, rng_used, call, poly_call, backup,
                   prime_call>>

\* the end of remove_member (lines 182-185): the flag is cleared, the counter
\* decremented, True returned
remove_end ==
    /\ threads.remove.pc = "loop"
    /\ threads.remove.k > Len(members)
    /\ members' = deactivate(members, threads.remove.id)
    /\ active_member_count' = active_member_count - 1
    /\ threads' = [threads EXCEPT !.remove.pc = "done",
                      !.sign.overlapped = @ \/ threads.sign.pc = "loop"]
    /\ UNCHANGED <<constructed, prime, threshold, master_secret, rng_used,
                   call, poly_call, backup, prime_call>>

\* sign_message up to its loop (lines 203-211)
sign_begin(msg_hash, signers) ==
    /\ constructed
    /\ threads.sign.pc = "idle"
    /\ threads' = IF Len(signers) < threshold
                  THEN [threads EXCEPT !.sign.pc = "done",
                           !.sign.msg = msg_hash, !.sign.signers = signers,
                           !.sign.ret = RetNone]
                  ELSE [threads EXCEPT !.sign.pc = "loop",
                           !.sign.msg = msg_hash, !.sign.signers = signers,
                           !.sign.k = 1,
                           !.sign.overlapped = threads.remove.pc = "loop"]
    /\ UNCHANGED <<constructed, prime, threshold, master_secret, members,
                   active_member_count, rng_used, call, poly_call, backup,
                   prime_call>>

\* one pass of the loop "for signer_id in signers[:self.threshold]" (lines
\* 212-214): the share of the k-th signer is read as it is now
sign_step ==
    /\ threads.sign.pc = "loop"
    /\ threads.sign.k <= threshold
    /\ LET signer_id == threads.sign.signers[threads.sign.k]
       IN  threads' = [threads EXCEPT !.sign.k = @ + 1,
                          !.sign.shares =
                              IF signer_id \in ActiveIds(members)
                              THEN Append(@, <<signer_id,
                                              Get(members, signer_id).share>>)
                              ELSE @,
                          !.sign.overlapped =
                              @ \/ threads.remove.pc = "loop"]
    /\ UNCHANGED <<constructed, prime, threshold, master_secret, members,
                   active_member_count, rng_used, call, poly_call, backup,
                   prime_call>>

\* a plausible slip: the leading coefficient is taken for the secret
signature_from_shares_last_coeff(shares, t, p, msg_hash) ==
    IF Len(shares) < t THEN RetNone
    ELSE IF interpolate_raises(shares, p) THEN RetValueError
    ELSE LET poly == interpolate(shares, p)
         IN  RetInt(pow(msg_hash, poly[Len(poly)], p))

\* lines 216-224 of sign_message: what it returns for the collected shares
signature_from_shares(shares, t, p, msg_hash) ==
    IF Len(shares) < t THEN RetNone
    ELSE IF interpolate_raises(shares, p) THEN RetValueError
    ELSE RetInt(pow(msg_hash, interpolate(shares, p)[1], p))

\* the end of sign_message (lines 216-224)
sign_end ==
    /\ threads.sign.pc = "loop"
    /\ threads.sign.k > threshold
    /\ threads' = [threads EXCEPT !.sign.pc = "done",
                      !.sign.ret = signature_from_shares(threads.sign.shares,
                                       threshold, prime, threads.sign.msg)]
    /\ UNCHANGED <<constructed, prime, threshold, master_secret, members,
                   active_member_count, rng_used, call, poly_call, backup,
                   prime_call>>

\* the digest of the message signed while a removal runs: the largest of the
\* model (2 modulo 5: its powers tell the exponents 0..3 apart)
SignedDigest == MaxDigest

\* one remove_member call and one sign_message call on a manager, their
\* steps interleaved in every way
NextConcurrent ==
    \/ \E t \in 1..MaxThreshold : \E n \in 1..MaxInitial : Construct(t, n)
    \/ \E id \in MemberIds :
       \E fresh \in [1..(threshold - 1) -> 2..(prime - 1)] :
          remove_begin(id, fresh)
    \/ remove_step
    \/ remove_end
    \/ \E signers \in SignerLists : sign_begin(SignedDigest, signers)
    \/ sign_step
    \/ sign_end

SpecConcurrent == Init /\ [][NextConcurrent]_vars

(* ---------------- properties ---------------- *)
\* every registered id is nonzero modulo the prime and no two registered ids
\* are equal modulo the prime
ValidIds ==
    /\ \A k \in 1..Len(members) : members[k].id % prime # 0
    /\ \A j, k \in 1..Len(members) :
          j # k => members[j].id % prime # members[k].id % prime

RECURSIVE shares_of(_, _, _)
\* the (id, share) pairs of the members whose id is in S, in registry order
shares_of(ms, S, k) ==
    IF k = 0 THEN <<>>
    ELSE IF ms[k].id \in S
         THEN Append(shares_of(ms, S, k - 1), <<ms[k].id, ms[k].share>>)
         ELSE shares_of(ms, S, k - 1)

\* the sets of `threshold` active members
Quorums == {S \in SUBSET ActiveIds(members) : Cardinality(S) = threshold}
QuorumPoly(S) == interpolate(shares_of(members, S, Len(members)), prime)

\* C1: share consistency. In every state reached from setup by add_member and
\* remove_member calls with ids distinct and nonzero modulo p, interpolating
\* any `threshold` active members' (id, share) pairs succeeds and gives one and
\* the same list of `threshold` coefficients F, and every active member's
\* share is F(id), a member just added included.
C1_ShareConsistency ==
    (constructed /\ ValidIds) =>
        \A S \in Quorums :
            LET points == shares_of(members, S, Len(members))
                F == interpolate(points, prime)
            IN  /\ ~interpolate_raises(points, prime)
                /\ Len(F) = threshold
                /\ F = interpolate(
                          collect_threshold_shares(members, threshold, {}),
                          prime)
                /\ \A k \in 1..Len(members) :
                      members[k].is_active =>
                          evaluate(F, members[k].id, prime) = members[k].share

\* a member was just added to a registry with threshold >= 2, so that more
\* than `threshold` shares have to lie on one polynomial
C1_Witness ==
    /\ constructed /\ ValidIds
    /\ call.op = "add_member" /\ call.ret.kind = "Member"
    /\ threshold >= 2
    /\ active_member_count > threshold
    /\ Cardinality(Quorums) >= 3

\* C2: secret constancy. After any sequence of add_member and remove_member
\* calls the constant term interpolated from any `threshold` active members'
\* shares is the master_secret drawn at setup.
C2_SecretConstancy ==
    (constructed /\ ValidIds) =>
        \A S \in Quorums : QuorumPoly(S)[1] = master_secret

\* a reshare with freshly drawn coefficients has just happened
C2_Witness ==
    /\ constructed /\ ValidIds
    /\ call.op = "remove_member" /\ call.ret.kind = "True"
    /\ threshold >= 2
    /\ Quorums # {}

\* the polynomial the active members' shares lie on, as add_member and
\* remove_member reconstruct it
CurrentPoly ==
    interpolate(collect_threshold_shares(members, threshold, {}), prime)

\* the first `threshold` entries of a signer list are pairwise distinct ids of
\* active members
ValidQuorum(signers) ==
    /\ Len(signers) >= threshold
    /\ \A k \in 1..threshold : signers[k] \in ActiveIds(members)
    /\ \A j, k \in 1..threshold : j # k => signers[j] # signers[k]

\* C3: sign/verify round trip. Whenever sign_message is called with a signer
\* list whose first `threshold` entries are pairwise distinct ids of active
\* members, it returns an integer s that verify_signature accepts for the same
\* message, and s = hash(message)^F(0) mod p for the polynomial F the active
\* shares lie on, whichever quorum signed and however many reshares came before.
C3_SignVerifyRoundTrip ==
    (call.op = "sign_message" /\ ValidQuorum(call.signers)) =>
        /\ call.ret.kind = "int"
        /\ verify_signature_result(master_secret, prime, call.msg, call.ret)
        /\ call.ret = RetInt(pow(call.msg, CurrentPoly[1], prime))

\* a quorum signed a message whose digest tells secrets apart, after a
\* reshare with threshold >= 2
C3_Witness ==
    /\ call.op = "sign_message" /\ ValidQuorum(call.signers)
    /\ call.ret.kind = "int"
    /\ threshold >= 2
    /\ call.msg >= 2
    /\ \E k \in 1..Len(members) : ~members[k].is_active

\* the share of the member removed by the last call, as its record retains it
OldShare == Get(members, call.id).share

\* the sets of `threshold` - 1 active members
SubQuorums ==
    {S \in SUBSET ActiveIds(members) : Cardinality(S) = threshold - 1}

\* the constant term interpolated from the removed member's retained share
\* together with the current shares of the members in S
SecretWithOldShare(S) ==
    interpolate(shares_of(members, S \cup {call.id}, Len(members)), prime)[1]

\* C4 as claimed: after a successful remove_member(id) with threshold >= 2
\* the departing member's old share never lies on the new polynomial, for
\* every choice of the freshly drawn coefficients.
C4_Original ==
    (call.op = "remove_member" /\ call.ret.kind = "True"
         /\ threshold >= 2 /\ ValidIds) =>
        /\ evaluate(CurrentPoly, call.id, prime) # OldShare
        /\ \A S \in SubQuorums : SecretWithOldShare(S) # CurrentPoly[1]

\* C4 as amended: after a successful remove_member(id) with threshold >= 2,
\* interpolating (id, old share) together with any threshold - 1 current
\* shares of active members misses the current secret exactly when the old
\* share does not lie on the new polynomial, F'(id) # old share; the fresh
\* draws with F'(id) = old share leave the old share usable.
C4_RevocationIffOffPolynomial ==
    (call.op = "remove_member" /\ call.ret.kind = "True"
         /\ threshold >= 2 /\ ValidIds) =>
        \A S \in SubQuorums :
            (SecretWithOldShare(S) # master_secret)
                <=> (evaluate(CurrentPoly, call.id, prime) # OldShare)

\* a reshare with threshold >= 2 after which the old share is off the new
\* polynomial and reconstructs a wrong secret
C4_Witness ==
    /\ call.op = "remove_member" /\ call.ret.kind = "True"
    /\ threshold >= 2 /\ ValidIds
    /\ SubQuorums # {}
    /\ evaluate(CurrentPoly, call.id, prime) # OldShare
    /\ \A S \in SubQuorums : SecretWithOldShare(S) # master_secret

\* the ids of the registered members that have been removed
RemovedIds == Ids(members) \ ActiveIds(members)

\* C5 as claimed: no sign_message call whose signer list contains a removed
\* id, at any position, returns a signature that verify_signature accepts.
C5_Original ==
    (call.op = "sign_message"
         /\ \E k \in 1..Len(call.signers) : call.signers[k] \in RemovedIds) =>
        ~verify_signature_result(master_secret, prime, call.msg, call.ret)

\* C5 as amended: a sign_message call with a removed id among the first
\* `threshold` entries of its signer list returns None, which
\* verify_signature rejects.
C5_RemovedAmongFirstT ==
    (call.op = "sign_message"
         /\ \E k \in 1..Min(threshold, Len(call.signers)) :
               call.signers[k] \in RemovedIds) =>
        /\ call.ret = RetNone
        /\ ~verify_signature_result(master_secret, prime, call.msg, call.ret)

\* a list of at least `threshold` signers with a removed id among the first
\* `threshold` was submitted
C5_Witness ==
    /\ call.op = "sign_message"
    /\ Len(call.signers) >= threshold
    /\ \E k \in 1..threshold : call.signers[k] \in RemovedIds
    /\ \E k \in 1..threshold : call.signers[k] \in ActiveIds(members)

\* C6: sign_message with fewer than `threshold` signer ids returns None,
\* whatever the ids, and changes nothing of the manager.
C6_TooFewSigners ==
    [][(call'.op = "sign_message" /\ Len(call'.signers) < threshold) =>
          /\ call'.ret = RetNone
          /\ UNCHANGED <<constructed, prime, threshold, master_secret,
                         members, active_member_count, rng_used>>]_vars

\* a non-empty list of active ids, shorter than the threshold, was submitted
C6_Witness ==
    /\ call.op = "sign_message"
    /\ Len(call.signers) < threshold
    /\ Len(call.signers) >= 1
    /\ \A k \in 1..Len(call.signers) : call.signers[k] \in ActiveIds(members)

\* C7: setup with threshold > initial_members raises ValueError before any
\* randomness is drawn: no prime, no secret, no member record, no manager.
C7_InvalidThreshold ==
    (call.op = "__init__" /\ call.t > call.n) =>
        /\ call.ret = RetValueError
        /\ ~constructed
        /\ ~rng_used
        /\ prime = 0
        /\ master_secret = 0
        /\ members = <<>>
        /\ active_member_count = 0

\* the constructor was called with a threshold above the initial population
C7_Witness ==
    /\ call.op = "__init__" /\ call.t > call.n
    /\ call.ret = RetValueError

\* C8: add_member with an id already in the registry, active or not, returns
\* None and changes no member record, nor the counter, nor the secret.
C8_AddExisting ==
    [][(constructed /\ call'.op = "add_member" /\ call'.id \in Ids(members)) =>
          /\ call'.ret = RetNone
          /\ UNCHANGED <<members, active_member_count, master_secret,
                         prime, threshold>>]_vars

\* add_member was called with the id of a removed member
C8_Witness ==
    /\ call.op = "add_member" /\ call.ret = RetNone
    /\ call.id \in RemovedIds

\* C9: remove_member with an id that is not registered or is inactive returns
\* False and changes no member record, nor the counter.
C9_RemoveUnknownOrInactive ==
    [][(constructed /\ call'.op = "remove_member"
           /\ (call'.id \notin Ids(members)
                  \/ ~Get(members, call'.id).is_active)) =>
          /\ call'.ret = RetFalse
          /\ UNCHANGED <<members, active_member_count>>]_vars

\* remove_member was called with the id of a member removed before, while
\* enough other members remained for the removal to go through otherwise
C9_Witness ==
    /\ call.op = "remove_member" /\ call.ret = RetFalse
    /\ call.id \in RemovedIds
    /\ active_member_count > threshold

\* C10: a successful remove_member(id) keeps the departing member's record:
\* the registry keeps its ids, the record becomes inactive with its share and
\* public key as they were, the other inactive records are untouched and the
\* other active members stay active.
C10_RemovedRecordRetained ==
    [][(call'.op = "remove_member" /\ call'.ret.kind = "True") =>
          /\ Len(members') = Len(members)
          /\ \A k \in 1..Len(members) :
                /\ members'[k].id = members[k].id
                /\ members[k].id = call'.id =>
                      /\ ~members'[k].is_active
                      /\ members'[k].share = members[k].share
                      /\ members'[k].public_key = members[k].public_key
                /\ (members[k].id # call'.id /\ ~members[k].is_active) =>
                      members'[k] = members[k]
                /\ (members[k].id # call'.id /\ members[k].is_active) =>
                      members'[k].is_active]_vars

\* a member was removed with threshold >= 2 and its record is still there,
\* holding a share that differs from the one the new polynomial gives its id
C10_Witness ==
    /\ call.op = "remove_member" /\ call.ret.kind = "True"
    /\ threshold >= 2
    /\ call.id \in RemovedIds
    /\ evaluate(CurrentPoly, call.id, prime) # OldShare

\* C11: evaluation points are valid. In every reachable state no registered
\* member has an id congruent to 0 modulo p and the registered ids are
\* pairwise distinct modulo p; add_member(0) creates no member, so no
\* member's share is F(0), the secret, by construction.
C11_ValidEvaluationPoints ==
    constructed =>
        /\ ValidIds
        /\ ~(call.op = "add_member" /\ call.id % prime = 0
             /\ call.ret.kind = "Member")

\* C12: boundary t = 1. After setup with threshold 1 every initial share is
\* the master secret, and setup(1, 1) leaves exactly one member, with id 1.
C12_ThresholdOne ==
    (call.op = "__init__" /\ call.ret = RetObject /\ call.t = 1) =>
        /\ \A k \in 1..Len(members) : members[k].share = master_secret
        /\ call.n = 1 => (Len(members) = 1 /\ members[1].id = 1)

\* setup(1, n) with several members has just returned
C12_Witness ==
    /\ call.op = "__init__" /\ call.ret = RetObject
    /\ call.t = 1 /\ call.n >= 2
    /\ Len(members) = call.n

\* the x-coordinates of a list of points are pairwise distinct modulo p
DistinctX(points, p) ==
    \A i, j \in 1..Len(points) :
        i # j => points[i][1] % p # points[j][1] % p

RECURSIVE permuted(_, _, _)
\* the first k points of the list in the order a permutation f of its
\* positions gives
permuted(points, f, k) ==
    IF k = 0 THEN <<>>
    ELSE Append(permuted(points, f, k - 1), points[f[k]])

\* C13: interpolation is order-independent. For every list of points with
\* pairwise distinct x modulo p, interpolate succeeds on every permutation of
\* the list and returns the coefficient list it returns on the list itself.
C13_OrderIndependent ==
    (poly_call.op = "interpolate" /\ DistinctX(poly_call.points, poly_call.p))
    =>  /\ ~poly_call.raised
        /\ \A f \in Permutations(1..Len(poly_call.points)) :
              LET q == permuted(poly_call.points, f, Len(poly_call.points))
              IN  /\ ~interpolate_raises(q, poly_call.p)
                  /\ interpolate(q, poly_call.p) = poly_call.result

\* three points with distinct x, not all at the same height, were interpolated
C13_Witness ==
    /\ poly_call.op = "interpolate"
    /\ DistinctX(poly_call.points, poly_call.p)
    /\ Len(poly_call.points) = MaxPoints
    /\ \E i, j \in 1..Len(poly_call.points) :
          poly_call.points[i][2] # poly_call.points[j][2]
    /\ ~poly_call.raised

\* the first `threshold` entries of the signer list of the recorded call hold
\* the id of one active member twice
DuplicateAmongFirstT ==
    /\ Len(call.signers) >= threshold
    /\ \E i, j \in 1..threshold :
          /\ i # j
          /\ call.signers[i] = call.signers[j]
          /\ call.signers[i] \in ActiveIds(members)

\* C14: a signer list whose first `threshold` entries hold the id of one
\* active member more than once makes sign_message return None; no exception
\* is raised.
C14_DuplicateSignersReturnNone ==
    (call.op = "sign_message" /\ DuplicateAmongFirstT) => call.ret = RetNone

\* the request of the claim's round trip: the split succeeded with
\* total_shares below the prime and at least `threshold` of the returned
\* shares, all different, were given to reconstruct_secret
RoundTripCase ==
    /\ backup.op = "reconstruct_secret"
    /\ backup.total_shares < backup.prime
    /\ Len(backup.given) >= backup.threshold

\* C15: key backup round trip. For a secret in [0, prime) and
\* 1 <= threshold <= total_shares < prime, reconstruct_secret on any list of
\* at least `threshold` different shares returned by split_secret, in any
\* order, returns the secret.
C15_BackupRoundTrip ==
    RoundTripCase => backup.ret = RetInt(backup.secret)

\* more shares than the threshold, not in the order split_secret returned
\* them, gave back the secret of a polynomial of degree >= 1
C15_Witness ==
    /\ RoundTripCase
    /\ backup.threshold >= 2
    /\ Len(backup.given) > backup.threshold
    /\ backup.given[1].index > backup.given[2].index
    /\ backup.ret = RetInt(backup.secret)

\* C16: setup postcondition. After setup(t, n) with 1 <= t <= n the registry
\* holds exactly the ids 1..n, every member is active, active_member_count
\* is n, the master secret is in [2, p), and the shares are F(1)..F(n) for
\* the polynomial F through the first t of them, which has exactly t
\* coefficients, the master secret as constant term and its other
\* coefficients in [2, p).
C16_SetupPostcondition ==
    (call.op = "__init__" /\ call.ret = RetObject) =>
        LET F == CurrentPoly
        IN  /\ threshold = call.t
            /\ Len(members) = call.n
            /\ active_member_count = call.n
            /\ \A k \in 1..Len(members) :
                  /\ members[k].id = k
                  /\ members[k].is_active
                  /\ members[k].share = evaluate(F, k, prime)
            /\ master_secret \in 2..(prime - 1)
            /\ Len(F) = threshold
            /\ F[1] = master_secret
            /\ \A k \in 2..Len(F) : F[k] \in 2..(prime - 1)

\* setup returned with more members than the threshold and threshold >= 2
C16_Witness ==
    /\ call.op = "__init__" /\ call.ret = RetObject
    /\ call.t >= 2 /\ call.n > call.t
    /\ Len(members) = call.n

\* C17: interpolation inverts evaluation on the whole coefficient list. For
\* every nonempty coefficient list c of length k with entries in [0, p) and
\* every k points x pairwise distinct modulo p, interpolating the points
\* (x, c(x)) succeeds and returns exactly c, all k coefficients.
C17_InterpolateInvertsEvaluate ==
    (/\ poly_call.op = "interpolate"
     /\ poly_call.coefficients # <<>>
     /\ Len(poly_call.xs) = Len(poly_call.coefficients)
     /\ DistinctX(poly_call.points, poly_call.p))
    =>  /\ ~poly_call.raised
        /\ poly_call.result = poly_call.coefficients

\* a polynomial of full length with a zero leading coefficient was evaluated
\* at distinct points, one of them not below p, and interpolated back
C17_Witness ==
    /\ poly_call.op = "interpolate"
    /\ Len(poly_call.coefficients) = MaxCoeffs
    /\ Len(poly_call.xs) = MaxCoeffs
    /\ poly_call.coefficients[MaxCoeffs] = 0
    /\ poly_call.coefficients[1] # 0
    /\ DistinctX(poly_call.points, poly_call.p)
    /\ \E k \in 1..Len(poly_call.xs) : poly_call.xs[k] >= poly_call.p
    /\ poly_call.result = poly_call.coefficients

\* C18: interpolate raises an error and returns no Polynomial whenever two of
\* the points it is given have the same x modulo p, wherever in the list the
\* two points are.
C18_DuplicateXRaises ==
    (poly_call.op = "interpolate" /\ ~DistinctX(poly_call.points, poly_call.p))
    =>  /\ poly_call.raised
        /\ poly_call.result = <<>>

\* the last two of three points have different x that are equal modulo p and
\* different y, the first point shares its x with no other
C18_Witness ==
    /\ poly_call.op = "interpolate"
    /\ Len(poly_call.points) = 3
    /\ poly_call.points[2][1] # poly_call.points[3][1]
    /\ poly_call.points[2][1] % poly_call.p = poly_call.points[3][1] % poly_call.p
    /\ poly_call.points[2][2] # poly_call.points[3][2]
    /\ poly_call.points[1][1] % poly_call.p # poly_call.points[2][1] % poly_call.p
    /\ poly_call.raised

\* the number of points of different x modulo p
DistinctCount(points, p) ==
    Cardinality({points[k][1] % p : k \in 1..Len(points)})

\* C19: interpolate raises an error when the points it is given, taken from a
\* sharing polynomial of t coefficients, hold fewer than t different x; it
\* returns no polynomial built from fewer than t points.
C19_SubThresholdRaises ==
    (/\ poly_call.op = "interpolate"
     /\ poly_call.coefficients # <<>>
     /\ DistinctCount(poly_call.points, poly_call.p)
            < Len(poly_call.coefficients))
    => poly_call.raised

\* the entries of the recorded signer list that sign_message may look at
FirstT == SubSeq(call.signers, 1, Min(threshold, Len(call.signers)))

\* C20: signer selection. sign_message returns None exactly when fewer than
\* `threshold` of the first `threshold` entries of the signer list are ids of
\* registered active members, and a list of at least `threshold` entries
\* gives the result its first `threshold` entries alone give: the entries
\* after them have no influence.
C20_SignerSelection ==
    call.op = "sign_message" =>
        /\ call.ret = RetNone <=>
              Cardinality({k \in 1..Len(FirstT) :
                              FirstT[k] \in ActiveIds(members)}) < threshold
        /\ Len(call.signers) >= threshold =>
              call.ret = sign_message_result(members, threshold, prime,
                                             call.msg, FirstT)

\* a list longer than the threshold was given: its first `threshold` entries
\* are active members and a later entry is the id of a removed member
C20_Witness ==
    /\ call.op = "sign_message"
    /\ Len(call.signers) > threshold
    /\ call.signers[Len(call.signers)] \in RemovedIds
    /\ call.ret.kind = "int"

\* C21: remove_member(id) of an active member while fewer than `threshold`
\* other active members remain returns False and changes nothing: no record
\* (flag, share, public key) and not the counter.
C21_RemoveBelowThreshold ==
    [][(/\ constructed
        /\ call'.op = "remove_member"
        /\ call'.id \in ActiveIds(members)
        /\ active_member_count - 1 < threshold) =>
          /\ call'.ret = RetFalse
          /\ UNCHANGED <<members, active_member_count>>]_vars

\* an active member asked to leave a registry that holds exactly `threshold`
\* active members, and is still active
C21_Witness ==
    /\ call.op = "remove_member" /\ call.ret = RetFalse
    /\ call.id \in ActiveIds(members)
    /\ active_member_count = threshold

\* C22: public-key invariant. In every reachable state every member record,
\* active or not, has public_key = share^2 mod p.
C22_PublicKeyInvariant ==
    \A k \in 1..Len(members) :
        members[k].public_key = pow(members[k].share, 2, prime)

\* a reshare has overwritten shares while a removed member's record is kept
C22_Witness ==
    /\ call.op = "remove_member" /\ call.ret.kind = "True"
    /\ threshold >= 2
    /\ RemovedIds # {}
    /\ \E k \in 1..Len(members) :
          members[k].is_active /\ members[k].public_key # 0

\* an add_member or remove_member call that failed
FailedMembershipCall(c) ==
    /\ c.op \in {"add_member", "remove_member"}
    /\ c.ret.kind \in {"None", "False", "ValueError"}

\* C26: counter consistency. In every reachable state active_member_count is
\* the number of member records whose is_active flag is True, and a failing
\* add_member or remove_member call leaves the counter as it was.
C26_CounterConsistency ==
    /\ [](active_member_count = Cardinality(ActiveIds(members)))
    /\ [][FailedMembershipCall(call') =>
             active_member_count' = active_member_count]_vars

\* a removal was refused after an earlier one went through
C26_Witness ==
    /\ call.op = "remove_member" /\ call.ret = RetFalse
    /\ RemovedIds # {}
    /\ call.id \in ActiveIds(members)
    /\ active_member_count = Cardinality(ActiveIds(members))

\* some list of `threshold` active members' ids makes sign_message return,
\* for every digest, a signature that verify_signature accepts
SomeQuorumSigns ==
    \E signers \in [1..threshold -> ActiveIds(members)] :
        \A h \in Digests :
            verify_signature_result(master_secret, prime, h,
                sign_message_result(members, threshold, prime, h, signers))

\* C27: quorum is never lost. After setup active_member_count >= threshold
\* in every reachable state, some signer list produces a valid signature, and
\* add_member with an unregistered id always succeeds.
C27_QuorumNeverLost ==
    /\ [](constructed =>
             (active_member_count >= threshold /\ SomeQuorumSigns))
    /\ [][(constructed /\ call'.op = "add_member"
               /\ call'.id \notin Ids(members)) =>
             call'.ret.kind = "Member"]_vars

\* removals have brought the registry down to exactly `threshold` active
\* members, with threshold >= 2
C27_Witness ==
    /\ call.op = "remove_member" /\ call.ret.kind = "True"
    /\ threshold >= 2
    /\ active_member_count = threshold

\* C28: membership is monotone. No step removes a registered id, no step
\* turns an inactive record active again, and add_member with the id of a
\* removed member returns None and leaves the registry as it was.
C28_MembershipMonotone ==
    [][/\ Ids(members) \subseteq Ids(members')
       /\ \A id \in Ids(members) :
             ~Get(members, id).is_active => ~Get(members', id).is_active
       /\ (call'.op = "add_member" /\ call'.id \in RemovedIds) =>
             (call'.ret = RetNone /\ members' = members)]_vars

\* add_member was tried on a removed id while two removed records are kept
C28_Witness ==
    /\ call.op = "add_member" /\ call.ret = RetNone
    /\ call.id \in RemovedIds
    /\ Cardinality(RemovedIds) >= 2

\* C29: add_member does not reshare. A successful add_member(new_id) leaves
\* every earlier record as it was, appends one active record for new_id and
\* raises active_member_count by one; sign_message and verify_signature
\* change no state of the manager.
C29_AddMemberFrame ==
    [][/\ (call'.op = "add_member" /\ call'.ret.kind = "Member") =>
             /\ Len(members') = Len(members) + 1
             /\ \A k \in 1..Len(members) : members'[k] = members[k]
             /\ members'[Len(members')].id = call'.id
             /\ members'[Len(members')].is_active
             /\ active_member_count' = active_member_count + 1
       /\ call'.op \in {"sign_message", "verify_signature"} =>
             UNCHANGED <<constructed, prime, threshold, master_secret,
                         members, active_member_count, rng_used>>]_vars

\* a member joined a registry with threshold >= 2 that held two records
C29_Witness ==
    /\ call.op = "add_member" /\ call.ret.kind = "Member"
    /\ threshold >= 2
    /\ Len(members) = 3
    /\ members[3].id = call.id

\* C30: with threshold 1 a reshare revokes nothing. A successful
\* remove_member leaves every share as it was and equal to the secret, the
\* removed member's retained share included, and the polynomial of the
\* remaining members is the constant master_secret.
C30_ThresholdOneReshare ==
    [][(call'.op = "remove_member" /\ call'.ret.kind = "True"
           /\ threshold = 1) =>
          /\ \A k \in 1..Len(members) :
                /\ members'[k].share = members[k].share
                /\ members'[k].share = master_secret
          /\ interpolate(collect_threshold_shares(members', threshold, {}),
                         prime) = <<master_secret>>]_vars

\* with threshold 1 a member was removed and its retained share is the secret
C30_Witness ==
    /\ call.op = "remove_member" /\ call.ret.kind = "True"
    /\ threshold = 1
    /\ call.id \in RemovedIds
    /\ Get(members, call.id).share = master_secret

\* C24: is_prime never rejects a prime. For every prime n and every draw of
\* the k bases in [2, n-2] is_prime(n, k) returns True; it returns False for
\* every n <= 1 and for every even n > 2.
C24_NoFalseNegative ==
    prime_call.op = "is_prime" =>
        /\ IsPrimeNumber(prime_call.n) => prime_call.ret = RetTrue
        /\ prime_call.n <= 1 => prime_call.ret = RetFalse
        /\ (prime_call.n > 2 /\ prime_call.n % 2 = 0) =>
              prime_call.ret = RetFalse

\* a prime n with n - 1 divisible by 4 went through MaxRounds rounds, one of
\* them with a base that passes only through the repeated squaring
C24_Witness ==
    /\ prime_call.op = "is_prime"
    /\ IsPrimeNumber(prime_call.n)
    /\ two_exponent(prime_call.n - 1) >= 2
    /\ Len(prime_call.witnesses) = MaxRounds
    /\ \E i \in 1..Len(prime_call.witnesses) :
          pow(prime_call.witnesses[i], odd_part(prime_call.n - 1),
              prime_call.n) \notin {1, prime_call.n - 1}
    /\ prime_call.ret = RetTrue

\* C25: every candidate generate_safe_prime(bits) samples, and so every
\* value it returns, is odd and has bit length exactly bits, and a value is
\* returned only if it and its half (p-1)/2 both passed is_prime.
C25_CandidateBitLength ==
    (prime_call.op = "generate_safe_prime" /\ prime_call.sampled) =>
        /\ prime_call.candidate % 2 = 1
        /\ two_to(prime_call.bits - 1) <= prime_call.candidate
        /\ prime_call.candidate < two_to(prime_call.bits)
        /\ prime_call.ret # RetNone =>
              /\ prime_call.ret = RetInt(prime_call.candidate)
              /\ prime_call.passed = <<TRUE, TRUE>>

\* the sign_message call has returned a signature that verify_signature
\* rejects
SignatureRejected ==
    /\ threads.sign.pc = "done"
    /\ threads.sign.ret.kind = "int"
    /\ ~verify_signature_result(master_secret, prime, threads.sign.msg,
                                threads.sign.ret)

\* C23: serialization requirement. A sign_message call returns a signature
\* that verify_signature rejects only if its share collection ran while the
\* overwrite loop of a remove_member call was in progress: with the two calls
\* one after the other no such state is reachable, interleaved it is.
C23_RejectedOnlyWhenInterleaved ==
    SignatureRejected => threads.sign.overlapped

\* the share collection was interleaved with a reshare, picked up at least
\* `threshold` shares of active members and gave a signature that
\* verify_signature rejects, after the removal has completed
C23_Witness ==
    /\ SignatureRejected
    /\ threads.sign.overlapped
    /\ threads.remove.pc = "done"
    /\ threshold >= 2

====
